---- MODULE Spec2Model ----
(***************************************************************************)
(* A model of haystack: the dual-pattern line scanner of haystack.py       *)
(* (search, its closures _backtrack and _found_result, and the part of     *)
(* main that consumes search's return value) and the pattern library of    *)
(* patterns.py (FixedPattern, RegExPattern, FuzzyRegExPattern,             *)
(* from_string).                                                           *)
(*                                                                         *)
(* Strings are sequences of one-character strings.  Python values that     *)
(* can be None are records with a "kind" field.  Line indices are the      *)
(* 0-based indices of the code; buf[i + 1] is the code's lines[i].         *)
(***************************************************************************)
EXTENDS Integers, Sequences, FiniteSets, TLC

\* Bounds of the model.
MaxLines == 3          \* longest line buffer
MaxResultsBound == 2   \* largest max_results tried
MaxFlagTokens == 2     \* most flag tokens after the closing slash
MaxWords == 2          \* most words of a line given to distance()

(***************************************************************************)
(* Python strings                                                          *)
(***************************************************************************)
NL == "\n"

Whitespace == {" ", "\t", "\n", "\r", "\f"}

RECURSIVE rstrip(_)
rstrip(s) ==
    IF s # <<>> /\ s[Len(s)] \in Whitespace
    THEN rstrip(SubSeq(s, 1, Len(s) - 1))
    ELSE s

\* p occurs in s at offset k (0-based)
OccursAt(p, s, k) ==
    /\ k + Len(p) <= Len(s)
    /\ \A n \in 1..Len(p) : s[k + n] = p[n]

\* Python's  p in s  for two strings
StrIn(p, s) == \E k \in 0..Len(s) : OccursAt(p, s, k)

(***************************************************************************)
(* The patterns search() is given: None, a str, or a compiled regular      *)
(* expression.  The compiled expressions of the model are a literal, or a  *)
(* literal inside one named group (?P<group>literal).                      *)
(***************************************************************************)
None == [kind |-> "none"]

StrPattern(b) == [kind |-> "str", body |-> b, group |-> ""]

RegexPattern(b, g) == [kind |-> "regex", body |-> b, group |-> g]

\* type(p) == regex_type
IsRegex(p) == p.kind = "regex"

\* re.match(p, s): anchored at the start of s.  A match carries its groupdict().
re_match(p, s) ==
    IF OccursAt(p.body, s, 0)
    THEN [kind |-> "match",
          groupdict |-> IF p.group = "" THEN <<>> ELSE (p.group :> p.body)]
    ELSE None

\* dict.update
Update(g, h) == h @@ g

Put(g, k, v) == (k :> v) @@ g

(***************************************************************************)
(* State of one call of search(), and of main() around it                  *)
(***************************************************************************)
VARIABLES
    pc,              \* "idle" | "loop" | "returned" | "done"
    caller,          \* "main" | "api": who called search
    file_lines,      \* what get_file(input) returned
    first_pattern, second_pattern,
    instant, forwards, max_results, context,
    line, lines, groups, matches,
    stdout,          \* records printed so far
    ret,             \* search's return value
    main_result      \* how main's use of the return value ended

scan_vars == <<pc, caller, file_lines, first_pattern, second_pattern, instant,
               forwards, max_results, context, line, lines, groups, matches,
               stdout, ret, main_result>>

(***************************************************************************)
(* State of a session with patterns.py: one pattern is constructed, then   *)
(* its methods are called.                                                 *)
(***************************************************************************)
VARIABLES
    pat_pc,          \* "start" | "built"
    args,            \* the arguments the constructing call was given
    built,           \* what the constructing call returned or raised
    call,            \* the last method call on the pattern
    result           \* what that call returned or raised

pat_vars == <<pat_pc, args, built, call, result>>

vars == <<scan_vars, pat_vars>>

\* The value of the 'file' key: the path of the one input.
InputPath == "f"

RawLines == { <<"a", NL>>, <<"b", " ", NL>>, <<"b", "a", NL>> }

RECURSIVE SeqsUpTo(_, _)
SeqsUpTo(S, n) ==
    IF n = 0 THEN { <<>> }
    ELSE LET shorter == SeqsUpTo(S, n - 1)
         IN shorter \cup { Append(q, e) : q \in {r \in shorter : Len(r) = n - 1}, e \in S }

FirstPatterns ==
    { StrPattern(<<"a">>), RegexPattern(<<"a">>, ""), RegexPattern(<<"b">>, "k") }

SecondPatterns ==
    { None, StrPattern(<<"b">>), StrPattern(<<"b", " ", NL>>),
      RegexPattern(<<"b">>, "k") }

\* Every record given to format(), in order, printed or appended.
Emitted == IF instant THEN stdout ELSE matches

(***************************************************************************)
(* search(): the closures                                                  *)
(***************************************************************************)
\* A faulty Advance that walks up the file whatever the direction asked for.
AdvanceBackOnly(ln) == ln - 1

\* haystack.py 161-164 and 194-197: one step of the anchor search
Advance(ln) == IF forwards THEN ln + 1 ELSE ln - 1

\* A faulty AddContext that appends the line whatever the direction.
AddContextAppendOnly(ctx, text) == ctx \o <<NL>> \o text

\* haystack.py 166-169: the visited line joins groups['context']
AddContext(ctx, text) ==
    IF forwards THEN ctx \o <<NL>> \o text
    ELSE text \o <<NL>> \o ctx

\* What a call leaves: the groups dict, and the records it gave to format().
Outcome(g, out) == [groups |-> g, out |-> out]

\* haystack.py 165-197: the while loop of _backtrack
RECURSIVE BacktrackLoop(_, _, _)
BacktrackLoop(buf, g, ln) ==
    IF ~(ln >= 0 /\ ln < Len(buf)) THEN Outcome(g, <<>>)
    ELSE
      LET g1 == Put(g, "context", AddContext(g["context"], buf[ln + 1]))
          g2 == Put(Put(g1, "second_line", buf[ln + 1]), "second_line_num", ln)
          m  == re_match(second_pattern, buf[ln + 1])
          g3 == Update(g2, m.groupdict)
      IN IF IsRegex(second_pattern)
         THEN IF m # None
              THEN Outcome(Put(g3, "results", g3["results"] + 1), <<g3>>)
              ELSE BacktrackLoop(buf, g2, Advance(ln))
         ELSE IF StrIn(second_pattern.body, buf[ln + 1])
              THEN Outcome(g2, <<g2>>)
              ELSE BacktrackLoop(buf, g2, Advance(ln))

\* haystack.py 160-197
_backtrack(buf, g, ln) == BacktrackLoop(buf, g, Advance(ln))

\* haystack.py 199-209
_found_result(buf, g, ln) ==
    IF second_pattern # None
    THEN _backtrack(buf, Put(g, "context", buf[ln + 1]), ln)
    ELSE Outcome(Put(g, "results", g["results"] + 1), <<g>>)

\* dict.clear
clear(g) == [k \in {} |-> g[k]]

\* A faulty Rebuild that updates the dict without clearing it first.
RebuildKeepingKeys(g, buf, results, ln) ==
    Update(g, [file |-> InputPath, first_line |-> buf[ln + 1],
               first_line_num |-> ln, results |-> results])

\* haystack.py 216-218: groups is cleared and seeded for the line under test
Rebuild(g, buf, results, ln) ==
    Update(clear(g), [file |-> InputPath, first_line |-> buf[ln + 1],
                      first_line_num |-> ln, results |-> results])

\* haystack.py 216-228: the body of the outer loop after the max_results test
TestLine(buf, results, ln) ==
    LET g0 == Rebuild(groups, buf, results, ln)
        m  == re_match(first_pattern, buf[ln + 1])
    IN IF IsRegex(first_pattern)
       THEN IF m # None
            THEN _found_result(buf, Update(g0, m.groupdict), ln)
            ELSE Outcome(g0, <<>>)
       ELSE IF StrIn(first_pattern.body, buf[ln + 1])
            THEN _found_result(buf, g0, ln)
            ELSE Outcome(g0, <<>>)

(***************************************************************************)
(* search() and main() as steps                                            *)
(***************************************************************************)
ScanInit ==
    /\ pc = "idle"
    /\ caller = "api"
    /\ file_lines = <<>>
    /\ first_pattern = StrPattern(<<"a">>)
    /\ second_pattern = None
    /\ instant = FALSE
    /\ forwards = FALSE
    /\ max_results = -1
    /\ context = TRUE
    /\ line = 0
    /\ lines = <<>>
    /\ groups = [results |-> 0]
    /\ matches = <<>>
    /\ stdout = <<>>
    /\ ret = [kind |-> "pending"]
    /\ main_result = "pending"

\* haystack.py 152-157: the entry of search
Enter(who, content, first, second, inst, fwd, maxr, ctx) ==
    /\ pc = "idle"
    /\ pc' = "loop"
    /\ caller' = who
    /\ file_lines' = content
    /\ first_pattern' = first
    /\ second_pattern' = second
    /\ instant' = inst
    /\ forwards' = fwd
    /\ max_results' = maxr
    /\ context' = ctx
    /\ line' = 0
    /\ lines' = content
    /\ groups' = [results |-> 0]
    /\ matches' = <<>>
    /\ UNCHANGED <<stdout, ret, main_result>>
    /\ UNCHANGED pat_vars

\* haystack.py 302-304: main calls search for one file; context keeps its default
main_call ==
    /\ pc = "idle"
    /\ \E content \in SeqsUpTo(RawLines, MaxLines), first \in FirstPatterns,
          second \in SecondPatterns, inst \in BOOLEAN, fwd \in BOOLEAN,
          maxr \in -1..MaxResultsBound :
           Enter("main", content, first, second, inst, fwd, maxr, TRUE)

\* haystack.py 112-113: search called directly, context given
search_call ==
    /\ pc = "idle"
    /\ \E content \in SeqsUpTo(RawLines, MaxLines), first \in FirstPatterns,
          second \in SecondPatterns, inst \in BOOLEAN, fwd \in BOOLEAN,
          maxr \in -1..MaxResultsBound :
           Enter("api", content, first, second, inst, fwd, maxr, FALSE)

\* haystack.py 211-229: one pass of the outer while loop
search_iter ==
    /\ pc = "loop"
    /\ line < Len(lines)
    /\ LET buf == [lines EXCEPT ![line + 1] = rstrip(@)]
           results == groups["results"]
       IN /\ lines' = buf
          /\ IF max_results > -1 /\ groups["results"] >= max_results
             THEN /\ ret' = None
                  /\ pc' = "returned"
                  /\ UNCHANGED <<line, groups, matches, stdout>>
             ELSE LET o == TestLine(buf, results, line)
                  IN /\ groups' = o.groups
                     /\ IF instant
                        THEN stdout' = stdout \o o.out /\ UNCHANGED matches
                        ELSE matches' = matches \o o.out /\ UNCHANGED stdout
                     /\ line' = line + 1
                     /\ UNCHANGED <<pc, ret>>
    /\ UNCHANGED <<caller, file_lines, first_pattern, second_pattern, instant,
                   forwards, max_results, context, main_result>>
    /\ UNCHANGED pat_vars

\* haystack.py 211, 231: the loop ends and search returns its list
search_return ==
    /\ pc = "loop"
    /\ ~(line < Len(lines))
    /\ ret' = [kind |-> "list", val |-> matches]
    /\ pc' = "returned"
    /\ UNCHANGED <<caller, file_lines, first_pattern, second_pattern, instant,
                   forwards, max_results, context, line, lines, groups,
                   matches, stdout, main_result>>
    /\ UNCHANGED pat_vars

\* haystack.py 305-306: main takes the length of what search returned
main_print ==
    /\ pc = "returned"
    /\ caller = "main"
    /\ pc' = "done"
    /\ IF instant # FALSE
       THEN main_result' = "skipped" /\ UNCHANGED stdout
       ELSE IF ret.kind # "list"
            THEN main_result' = "TypeError" /\ UNCHANGED stdout
            ELSE IF Len(ret.val) > 0
                 THEN main_result' = "printed" /\ stdout' = stdout \o ret.val
                 ELSE main_result' = "skipped" /\ UNCHANGED stdout
    /\ UNCHANGED <<caller, file_lines, first_pattern, second_pattern, instant,
                   forwards, max_results, context, line, lines, groups,
                   matches, ret>>
    /\ UNCHANGED pat_vars

ScanNext ==
    \/ main_call
    \/ search_call
    \/ search_iter
    \/ search_return
    \/ main_print

(***************************************************************************)
(* patterns.py: characters, results of calls, bit operations               *)
(***************************************************************************)
DigitSeq == <<"0", "1", "2", "3", "4", "5", "6", "7", "8", "9">>

LowerSeq == <<"a", "b", "c", "d", "e", "f", "g", "h", "i", "j", "k", "l", "m",
              "n", "o", "p", "q", "r", "s", "t", "u", "v", "w", "x", "y", "z">>

UpperSeq == <<"A", "B", "C", "D", "E", "F", "G", "H", "I", "J", "K", "L", "M",
              "N", "O", "P", "Q", "R", "S", "T", "U", "V", "W", "X", "Y", "Z">>

Range(q) == { q[n] : n \in 1..Len(q) }

\* [0-9A-Za-z]
AlnumChars == Range(DigitSeq) \cup Range(LowerSeq) \cup Range(UpperSeq)

\* \w
WordChars == AlnumChars \cup {"_"}

IndexIn(q, c) == CHOOSE n \in 1..Len(q) : q[n] = c

\* str.lower()
lower(s) ==
    [n \in 1..Len(s) |->
        IF s[n] \in Range(UpperSeq) THEN LowerSeq[IndexIn(UpperSeq, s[n])] ELSE s[n]]

\* A call returns a value or raises an exception.
Returned(v) == [kind |-> "returned", val |-> v]

Raised(e) == [kind |-> "raised", exc |-> e]

Pending == [kind |-> "pending"]

\* a & b and a | b on non-negative integers
RECURSIVE BitAnd(_, _)
BitAnd(a, b) ==
    IF a = 0 \/ b = 0 THEN 0
    ELSE (a % 2) * (b % 2) + 2 * BitAnd(a \div 2, b \div 2)

RECURSIVE BitOr(_, _)
BitOr(a, b) ==
    IF a = 0 THEN b
    ELSE IF b = 0 THEN a
    ELSE (IF a % 2 = 1 \/ b % 2 = 1 THEN 1 ELSE 0) + 2 * BitOr(a \div 2, b \div 2)

\* The length of the longest run of characters of S in s that starts at
\* position p (1-based); 0 when s[p] is not in S.
RECURSIVE RunLength(_, _, _)
RunLength(s, p, S) ==
    IF p > Len(s) \/ s[p] \notin S THEN 0 ELSE 1 + RunLength(s, p + 1, S)

(***************************************************************************)
(* patterns.py: the module's compiled expressions                          *)
(***************************************************************************)
\* patterns.py 12: re.match(p_cmd_line_regex, string) on a one-line string.
\* Both groups are greedy, so the body runs to the last slash.
p_cmd_line_regex_match(string) ==
    LET slashes == { n \in 2..Len(string) : string[n] = "/" }
    IN IF string # <<>> /\ string[1] = "/" /\ slashes # {}
       THEN LET last == CHOOSE n \in slashes : \A k \in slashes : k <= n
            IN [kind |-> "match",
                group1 |-> SubSeq(string, 2, last - 1),
                group2 |-> SubSeq(string, last + 1, Len(string))]
       ELSE None

\* patterns.py 13: p_cmd_flag_regex.findall(s), scanning from position p
RECURSIVE p_cmd_flag_regex_findall(_, _)
p_cmd_flag_regex_findall(s, p) ==
    IF p > Len(s) THEN <<>>
    ELSE LET n == RunLength(s, p, WordChars)
             colon == p + n <= Len(s) /\ s[p + n] = ":"
             k == IF colon THEN RunLength(s, p + n + 1, WordChars) ELSE 0
             len == IF k > 0 THEN n + 1 + k ELSE n
             comma == p + len <= Len(s) /\ s[p + len] = ","
         IN IF n = 0 THEN p_cmd_flag_regex_findall(s, p + 1)
            ELSE <<SubSeq(s, p, p + len - 1)>>
                 \o p_cmd_flag_regex_findall(s, p + len + (IF comma THEN 1 ELSE 0))

\* patterns.py 14: p_regex_regex.findall(s), scanning from position p: a run of
\* two or more alphanumerics between word boundaries, not after a backslash
\* and not after "P<"
RECURSIVE p_regex_regex_findall(_, _)
p_regex_regex_findall(s, p) ==
    IF p > Len(s) THEN <<>>
    ELSE LET n == RunLength(s, p, AlnumChars)
             boundaryBefore == p = 1 \/ s[p - 1] \notin WordChars
             boundaryAfter == p + n > Len(s) \/ s[p + n] \notin WordChars
             afterBackslash == p > 1 /\ s[p - 1] = "\\"
             afterGroupName == p > 2 /\ s[p - 2] = "P" /\ s[p - 1] = "<"
         IN IF /\ n >= 2
               /\ boundaryBefore
               /\ boundaryAfter
               /\ ~afterBackslash
               /\ ~afterGroupName
            THEN <<SubSeq(s, p, p + n - 1)>> \o p_regex_regex_findall(s, p + n)
            ELSE p_regex_regex_findall(s, p + 1)

\* patterns.py 15: p_word_regex.findall(s), scanning from position p
RECURSIVE p_word_regex_findall(_, _)
p_word_regex_findall(s, p) ==
    IF p > Len(s) THEN <<>>
    ELSE LET n == RunLength(s, p, AlnumChars)
         IN IF n = 0 THEN p_word_regex_findall(s, p + 1)
            ELSE <<SubSeq(s, p, p + n - 1)>> \o p_word_regex_findall(s, p + n)

\* str.replace(old, new) from position p on: every occurrence, left to right
RECURSIVE replace(_, _, _, _)
replace(s, old, new, p) ==
    IF p > Len(s) THEN <<>>
    ELSE IF OccursAt(old, s, p - 1)
         THEN new \o replace(s, old, new, p + Len(old))
         ELSE <<s[p]>> \o replace(s, old, new, p + 1)

\* str.split(sep) for a one-character separator
RECURSIVE split(_, _)
split(s, sep) ==
    LET at == { n \in 1..Len(s) : s[n] = sep }
    IN IF at = {} THEN <<s>>
       ELSE LET first == CHOOSE n \in at : \A k \in at : n <= k
            IN <<SubSeq(s, 1, first - 1)>> \o split(SubSeq(s, first + 1, Len(s)), sep)

\* int(s) for a string of word characters: decimal digits or ValueError
RECURSIVE DecimalValue(_)
DecimalValue(s) ==
    IF s = <<>> THEN 0
    ELSE 10 * DecimalValue(SubSeq(s, 1, Len(s) - 1)) + (IndexIn(DigitSeq, s[Len(s)]) - 1)

int(s) ==
    IF s # <<>> /\ \A n \in 1..Len(s) : s[n] \in Range(DigitSeq)
    THEN Returned(DecimalValue(s))
    ELSE Raised("ValueError")

(***************************************************************************)
(* patterns.py: the classes                                                *)
(***************************************************************************)
\* patterns.py 22-23, 50-53, 100: the class constants
ICASE == 1

WHOLE == 2

MULTI == 3

DOTALL == 4

UNICODE == 5

VERBOSE == 6

DEFAULT_DISTANCE == 3

FlagValues == {ICASE, WHOLE, MULTI, DOTALL, UNICODE, VERBOSE}

\* The names an instance of each class resolves: its own and its class's
\* attributes, and those of the classes it inherits from.
FixedPatternAttrs ==
    {"ICASE", "WHOLE", "__init__", "matches", "has_flag", "pattern", "flags"}

RegExPatternAttrs ==
    FixedPatternAttrs \cup {"MULTI", "DOTALL", "UNICODE", "VERBOSE", "_f2rf",
                            "_compile", "match", "search", "findall", "_pattern"}

FuzzyRegExPatternAttrs ==
    RegExPatternAttrs \cup {"DEFAULT_DISTANCE", "levenshtein", "distance",
                            "max_dist", "words"}

Attributes(cls) ==
    CASE cls = "FixedPattern" -> FixedPatternAttrs
      [] cls = "RegExPattern" -> RegExPatternAttrs
      [] cls = "FuzzyRegExPattern" -> FuzzyRegExPatternAttrs

\* patterns.py 41-43: FixedPattern.has_flag
has_flag(self, flag) == BitAnd(self.flags, flag) = flag

\* self.<name>(flag) for a method taking one flag: the attribute is looked up
\* on the instance first.
CallFlagMethod(self, name, flag) ==
    IF name \notin Attributes(self.cls) THEN Raised("AttributeError")
    ELSE IF name = "has_flag" THEN Returned(has_flag(self, flag))
    ELSE Raised("TypeError")

\* patterns.py 25-27: FixedPattern.__init__
FixedPattern(pattern, flags) ==
    [cls |-> "FixedPattern", pattern |-> pattern, flags |-> flags]

\* patterns.py 29-39: FixedPattern.matches
FixedPattern_matches(self, string) ==
    LET icase == CallFlagMethod(self, "has", ICASE)
    IN IF icase.kind = "raised" THEN icase
       ELSE LET pattern == IF icase.val THEN lower(self.pattern) ELSE self.pattern
                str == IF icase.val THEN lower(string) ELSE string
                whole == CallFlagMethod(self, "has", WHOLE)
            IN IF whole.kind = "raised" THEN whole
               ELSE IF whole.val
                    THEN Returned(<<pattern = str, None>>)
                    ELSE Returned(<<StrIn(pattern, str), None>>)

\* patterns.py 55-70: RegExPattern._f2rf.  The engine's flags are distinct bits,
\* so their bitwise or is the set of their names.
_f2rf(flags) ==
    LET translations == (1 :> "IGNORECASE") @@ (3 :> "MULTILINE") @@ (4 :> "DOTALL")
                        @@ (5 :> "UNICODE") @@ (6 :> "VERBOSE")
    IN { translations[t] : t \in { u \in DOMAIN translations : BitAnd(flags, u) = u } }

\* patterns.py 72-73: RegExPattern._compile; the engine keeps the pattern
\* string and the engine flags
_compile(pattern, flags) == [pattern |-> pattern, flags |-> _f2rf(flags)]

\* patterns.py 75-79: RegExPattern.__init__
RegExPattern(pattern, flags) ==
    LET self == FixedPattern(pattern, flags)
        p == IF has_flag(self, WHOLE) THEN <<"^">> \o pattern \o <<"$">> ELSE pattern
    IN [cls |-> "RegExPattern", pattern |-> p, flags |-> flags,
        _pattern |-> _compile(p, flags)]

\* patterns.py 81-85: RegExPattern.matches, given whether the engine matches
RegExPattern_matches(self, string, engine) ==
    Returned(<<engine, IF engine THEN [kind |-> "match"] ELSE None>>)

\* patterns.py 114-121: one row of the edit-distance table
RECURSIVE levenshtein_row(_, _, _, _, _)
levenshtein_row(previous_row, current_row, c1, s2, j) ==
    IF j >= Len(s2) THEN current_row
    ELSE LET insertions == previous_row[j + 2] + 1
             deletions == current_row[j + 1] + 1
             substitutions == previous_row[j + 1] + (IF c1 # s2[j + 1] THEN 1 ELSE 0)
             least == CHOOSE v \in {insertions, deletions, substitutions} :
                         \A w \in {insertions, deletions, substitutions} : v <= w
         IN levenshtein_row(previous_row, Append(current_row, least), c1, s2, j + 1)

RECURSIVE levenshtein_rows(_, _, _, _)
levenshtein_rows(previous_row, s1, s2, i) ==
    IF i >= Len(s1) THEN previous_row
    ELSE levenshtein_rows(levenshtein_row(previous_row, <<i + 1>>, s1[i + 1], s2, 0),
                          s1, s2, i + 1)

\* patterns.py 102-123: FuzzyRegExPattern.levenshtein
RECURSIVE levenshtein(_, _)
levenshtein(s1, s2) ==
    IF Len(s1) < Len(s2) THEN levenshtein(s2, s1)
    ELSE IF Len(s2) = 0 THEN Len(s1)
    ELSE LET last == levenshtein_rows([n \in 1..(Len(s2) + 1) |-> n - 1], s1, s2, 0)
         IN last[Len(last)]

\* patterns.py 129-131: the loop over the words found in the pattern
RECURSIVE RewriteWords(_, _, _)
RewriteWords(pattern, found, i) ==
    IF i >= Len(found) THEN pattern
    ELSE RewriteWords(replace(pattern, found[i + 1], <<"\\", "w", "+">>, 1), found, i + 1)

\* patterns.py 125-135: FuzzyRegExPattern.__init__
FuzzyRegExPattern(pattern, flags, max_dist) ==
    LET self == FixedPattern(pattern, flags)
        found == p_regex_regex_findall(pattern, 1)
        words == [i \in 0..(Len(found) - 1) |-> found[i + 1]]
        rewritten == RewriteWords(pattern, found, 0)
        p == IF has_flag(self, WHOLE) THEN <<"^">> \o rewritten \o <<"$">>
             ELSE rewritten
    IN [cls |-> "FuzzyRegExPattern", pattern |-> p, flags |-> flags,
        max_dist |-> max_dist, words |-> words, _pattern |-> _compile(p, flags)]

\* patterns.py 139-148: the loop of distance over the words of the line
RECURSIVE DistanceLoop(_, _, _, _)
DistanceLoop(self, found, i, d) ==
    IF i >= Len(found) THEN Returned(d)
    ELSE IF i \notin DOMAIN self.words THEN Raised("KeyError")
    ELSE LET icase == has_flag(self, ICASE)
             word1 == IF icase THEN lower(self.words[i]) ELSE self.words[i]
             word2 == IF icase THEN lower(found[i + 1]) ELSE found[i + 1]
         IN IF i \notin DOMAIN self.words
            THEN DistanceLoop(self, found, i + 1, d + Len(word2))
            ELSE DistanceLoop(self, found, i + 1, d + levenshtein(word1, word2))

\* patterns.py 137-149: FuzzyRegExPattern.distance
distance(self, string) == DistanceLoop(self, p_word_regex_findall(string, 1), 0, 0)

\* patterns.py 151-154: FuzzyRegExPattern.matches, given whether the engine
\* matches the rewritten pattern at the start of the string
FuzzyRegExPattern_matches(self, string, engine) ==
    LET d == distance(self, string)
    IN IF d.kind = "raised" THEN d
       ELSE Returned(<<(d.val <= self.max_dist) /\ engine,
                       IF engine THEN [kind |-> "match"] ELSE None>>)

\* patterns.py 171-178: the flags dict of from_string
FlagNames ==
    (<<"i">> :> ICASE) @@ (<<"i", "c", "a", "s", "e">> :> ICASE)
    @@ (<<"m">> :> MULTI) @@ (<<"m", "u", "l", "t", "i">> :> MULTI)
    @@ (<<"d">> :> DOTALL) @@ (<<"d", "o", "t", "a", "l", "l">> :> DOTALL)
    @@ (<<"u">> :> UNICODE) @@ (<<"u", "n", "i", "c", "o", "d", "e">> :> UNICODE)
    @@ (<<"v">> :> VERBOSE) @@ (<<"v", "e", "r", "b", "o", "s", "e">> :> VERBOSE)
    @@ (<<"w">> :> WHOLE) @@ (<<"w", "h", "o", "l", "e">> :> WHOLE)

\* patterns.py 179-182: the flags of the tokens are or-ed into f
RECURSIVE OrFlags(_, _, _)
OrFlags(f, flag_result, n) ==
    IF n > Len(flag_result) THEN f
    ELSE OrFlags(IF flag_result[n] \in DOMAIN FlagNames
                 THEN BitOr(f, FlagNames[flag_result[n]]) ELSE f,
                 flag_result, n + 1)

\* patterns.py 186-189: the threshold an approximate token gives
ApproxDistance(r) ==
    LET parts == split(r, ":")
    IN IF Len(parts) < 2 THEN Returned(DEFAULT_DISTANCE)   \* IndexError caught
       ELSE int(parts[2])

\* patterns.py 184-191: the loop over the tokens that selects the class
RECURSIVE SelectClass(_, _, _, _)
SelectClass(regex, f, flag_result, n) ==
    IF n > Len(flag_result) THEN Returned(RegExPattern(regex, f))
    ELSE IF flag_result[n][1] = "a"
         THEN LET dist == ApproxDistance(flag_result[n])
              IN IF dist.kind = "raised" THEN dist
                 ELSE Returned(FuzzyRegExPattern(regex, f, dist.val))
         ELSE SelectClass(regex, f, flag_result, n + 1)

\* patterns.py 157-191: from_string
from_string(string, flag) ==
    IF string = None THEN Returned(None)
    ELSE LET m == p_cmd_line_regex_match(string)
         IN IF m = None THEN Returned(FixedPattern(string, flag))
            ELSE LET flag_result == p_cmd_flag_regex_findall(m.group2, 1)
                 IN SelectClass(m.group1, OrFlags(flag, flag_result, 1), flag_result, 1)

(***************************************************************************)
(* A session with patterns.py as steps                                     *)
(***************************************************************************)
\* The pattern bodies, flag tokens and strings the session draws from.
Bodies ==
    { <<"a", "b">>, <<"a", "b", " ", "c", "d">>, <<"a", "b", " ", "a", "b", "c">>,
      <<"(", "?", "P", "<", "a", "b", ">", "a", "b", ")">> }

FlagTokens ==
    { <<"i">>, <<"w">>, <<"m">>, <<"d">>, <<"u">>, <<"v">>,
      <<"a">>, <<"a", ":", "2">>, <<"a", ":", "x">> }

FixedStrings == { <<"a", "b">>, <<"A", "b">> }

BaseFlags == {0, ICASE, WHOLE}

MatchStrings == { <<"a", "b">>, <<"A", "B">>, <<"x", "a", "b">>, <<"c">> }

LineWords == { <<"a", "b">>, <<"A", "x">>, <<"c", "d">> }

RECURSIVE Join(_, _)
Join(parts, sep) ==
    IF parts = <<>> THEN <<>>
    ELSE IF Len(parts) = 1 THEN parts[1]
    ELSE parts[1] \o sep \o Join(Tail(parts), sep)

\* The specification string /body/token,token,...
SpecString(body, tokens) == <<"/">> \o body \o <<"/">> \o Join(tokens, <<",">>)

PatInit ==
    /\ pat_pc = "start"
    /\ args = [ctor |-> "none"]
    /\ built = Pending
    /\ call = [op |-> "none"]
    /\ result = Pending

IsObject(b) == b.kind = "returned" /\ b.val # None

\* patterns.py 157-191: from_string on /body/flags
from_string_regex_call ==
    /\ pat_pc = "start"
    /\ \E body \in Bodies, tokens \in SeqsUpTo(FlagTokens, MaxFlagTokens),
          flag \in BaseFlags :
          /\ args' = [ctor |-> "from_string", form |-> "regex", body |-> body,
                      tokens |-> tokens, string |-> SpecString(body, tokens),
                      flag |-> flag]
          /\ built' = from_string(SpecString(body, tokens), flag)
    /\ pat_pc' = "built"
    /\ UNCHANGED <<call, result>>
    /\ UNCHANGED scan_vars

\* patterns.py 167-169: from_string on a string without slashes
from_string_fixed_call ==
    /\ pat_pc = "start"
    /\ \E string \in FixedStrings, flag \in BaseFlags :
          /\ args' = [ctor |-> "from_string", form |-> "fixed", string |-> string,
                      flag |-> flag]
          /\ built' = from_string(string, flag)
    /\ pat_pc' = "built"
    /\ UNCHANGED <<call, result>>
    /\ UNCHANGED scan_vars

\* patterns.py 165-166: from_string on None
from_string_none_call ==
    /\ pat_pc = "start"
    /\ \E flag \in BaseFlags :
          /\ args' = [ctor |-> "from_string", form |-> "none", string |-> None,
                      flag |-> flag]
          /\ built' = from_string(None, flag)
    /\ pat_pc' = "built"
    /\ UNCHANGED <<call, result>>
    /\ UNCHANGED scan_vars

\* patterns.py 25-27: FixedPattern(pattern, flags)
FixedPattern_call ==
    /\ pat_pc = "start"
    /\ \E pattern \in FixedStrings, flags \in 0..BitOr(ICASE, WHOLE) :
          /\ args' = [ctor |-> "FixedPattern", form |-> "fixed", string |-> pattern,
                      flag |-> flags]
          /\ built' = Returned(FixedPattern(pattern, flags))
    /\ pat_pc' = "built"
    /\ UNCHANGED <<call, result>>
    /\ UNCHANGED scan_vars

\* patterns.py 41-43: pattern.has_flag(flag)
has_flag_call ==
    /\ pat_pc = "built"
    /\ IsObject(built)
    /\ \E flag \in FlagValues :
          /\ call' = [op |-> "has_flag", flag |-> flag]
          /\ result' = Returned(has_flag(built.val, flag))
    /\ UNCHANGED <<pat_pc, args, built>>
    /\ UNCHANGED scan_vars

\* patterns.py 55-70: RegExPattern._f2rf(pattern.flags)
f2rf_call ==
    /\ pat_pc = "built"
    /\ IsObject(built)
    /\ "_f2rf" \in Attributes(built.val.cls)
    /\ call' = [op |-> "_f2rf"]
    /\ result' = Returned(_f2rf(built.val.flags))
    /\ UNCHANGED <<pat_pc, args, built>>
    /\ UNCHANGED scan_vars

\* patterns.py 29-39, 81-85, 151-154: pattern.matches(string); the class of the
\* instance selects the method, and the regular-expression engine's answer
\* is an input
matches_call ==
    /\ pat_pc = "built"
    /\ IsObject(built)
    /\ \E string \in MatchStrings, engine \in BOOLEAN :
          /\ call' = [op |-> "matches", string |-> string, engine |-> engine]
          /\ result' =
               CASE built.val.cls = "FixedPattern" ->
                        FixedPattern_matches(built.val, string)
                 [] built.val.cls = "RegExPattern" ->
                        RegExPattern_matches(built.val, string, engine)
                 [] built.val.cls = "FuzzyRegExPattern" ->
                        FuzzyRegExPattern_matches(built.val, string, engine)
    /\ UNCHANGED <<pat_pc, args, built>>
    /\ UNCHANGED scan_vars

\* patterns.py 137-149: pattern.distance(string)
distance_call ==
    /\ pat_pc = "built"
    /\ IsObject(built)
    /\ "distance" \in Attributes(built.val.cls)
    /\ \E ws \in SeqsUpTo(LineWords, MaxWords) :
          /\ call' = [op |-> "distance", string |-> Join(ws, <<" ">>)]
          /\ result' = distance(built.val, Join(ws, <<" ">>))
    /\ UNCHANGED <<pat_pc, args, built>>
    /\ UNCHANGED scan_vars

PatNext ==
    \/ from_string_regex_call
    \/ from_string_fixed_call
    \/ from_string_none_call
    \/ FixedPattern_call
    \/ has_flag_call
    \/ f2rf_call
    \/ matches_call
    \/ distance_call

(***************************************************************************)
(* Specifications: a scan (Spec), a session with patterns.py (SpecPatterns)*)
(***************************************************************************)
Init == ScanInit /\ PatInit

Next == ScanNext

Spec == Init /\ [][Next]_vars

SpecPatterns == Init /\ [][PatNext]_vars

(***************************************************************************)
(* The scanner's claims                                                    *)
(***************************************************************************)
\* Whether pattern p accepts text s, the way search tests it.
Satisfies(p, s) ==
    IF IsRegex(p) THEN re_match(p, s) # None ELSE StrIn(p.body, s)

\* The lines lo..hi of buf, in index order, joined by newlines.
RECURSIVE JoinLines(_, _, _)
JoinLines(buf, lo, hi) ==
    IF lo >= hi THEN buf[lo + 1]
    ELSE buf[lo + 1] \o <<NL>> \o JoinLines(buf, lo + 1, hi)

Normalized == [n \in 1..Len(file_lines) |-> rstrip(file_lines[n])]

Min(a, b) == IF a <= b THEN a ELSE b

Max(a, b) == IF a >= b THEN a ELSE b

\* A pass of the outer loop that tests line i (no max_results return).
TestsLine(i) == pc = "loop" /\ line = i /\ line' = i + 1

\* The indices on the searched side of i whose buffer line the anchor accepts.
AnchorCandidates(buf, i) ==
    { j \in 0..(Len(buf) - 1) :
        /\ IF forwards THEN j > i ELSE j < i
        /\ Satisfies(second_pattern, buf[j + 1]) }

Nearest(S, i) ==
    CHOOSE j \in S : \A k \in S : (IF j > i THEN j - i ELSE i - j)
                                     <= (IF k > i THEN k - i ELSE i - k)

\* C1 (as claimed): with max_results = N >= 0 one scan emits at most N records,
\* whatever the kinds of the trigger and the anchor and the direction.
C1_AtMostMaxResults ==
    (pc # "idle" /\ max_results >= 0) => Len(Emitted) <= max_results

\* C2 (as claimed): every line value of an emitted record (first_line,
\* second_line, the lines of context) is the input line with its trailing
\* whitespace stripped, for backward and forward anchor search.
C2_RecordLinesNormalized ==
    \A n \in 1..Len(Emitted) :
        LET r == Emitted[n]
        IN /\ r["first_line"] = Normalized[r["first_line_num"] + 1]
           /\ "second_line" \in DOMAIN r =>
                /\ r["second_line"] = Normalized[r["second_line_num"] + 1]
                /\ r["context"] =
                     JoinLines(Normalized,
                               Min(r["first_line_num"], r["second_line_num"]),
                               Max(r["first_line_num"], r["second_line_num"]))

\* C3: when the outer loop tests a line i that the trigger accepts and an anchor
\* pattern was given, then either some line on the searched side of i (strictly
\* before i backward, strictly after i forward) is accepted by the anchor, and
\* exactly one record is emitted whose second_line_num is the nearest such index
\* and whose second_line is the buffer's line there; or none is, nothing is
\* emitted for the hit, and the scan goes on with line i + 1.  Lines are the
\* buffer's lines as the anchor search reads them.
C3_NearestAnchor ==
    [][ \A i \in 0..(Len(lines) - 1) :
          ( /\ TestsLine(i)
            /\ second_pattern # None
            /\ Satisfies(first_pattern, lines'[i + 1]) )
          => LET cand == AnchorCandidates(lines', i)
             IN IF cand = {}
                THEN Emitted' = Emitted /\ pc' = "loop"
                ELSE /\ Len(Emitted') = Len(Emitted) + 1
                     /\ SubSeq(Emitted', 1, Len(Emitted)) = Emitted
                     /\ LET r == Emitted'[Len(Emitted')]
                        IN /\ r["first_line_num"] = i
                           /\ r["second_line_num"] = Nearest(cand, i)
                           /\ r["second_line_num"] # i
                           /\ r["second_line"] = lines'[Nearest(cand, i) + 1]
      ]_vars

\* C3's case: a forward scan has ended in which one trigger hit was paired with
\* an anchor two or more lines away and another trigger hit found no anchor.
C3_Witness ==
    /\ pc = "returned"
    /\ ret.kind = "list"
    /\ forwards
    /\ second_pattern # None
    /\ \E n \in 1..Len(Emitted) :
          Emitted[n]["second_line_num"] >= Emitted[n]["first_line_num"] + 2
    /\ \E i \in 0..(Len(lines) - 1) :
          /\ Satisfies(first_pattern, lines[i + 1])
          /\ \A n \in 1..Len(Emitted) : Emitted[n]["first_line_num"] # i

\* C4: a record that pairs the trigger at index i with an anchor at index j has
\* as context the buffer's lines min(i,j)..max(i,j), each once, in increasing
\* index order, joined by newlines, for both directions of the anchor search.
C4_ContextSpan ==
    [][ \A i \in 0..(Len(lines) - 1) :
          (TestsLine(i) /\ second_pattern # None /\ Len(Emitted') > Len(Emitted))
          => LET r == Emitted'[Len(Emitted')]
                 j == r["second_line_num"]
             IN /\ r["first_line_num"] = i
                /\ r["context"] = JoinLines(lines', Min(i, j), Max(i, j))
      ]_vars

\* C4's case: a backward search paired a trigger with an anchor two lines up,
\* and the three lines of the span are not all equal.
C4_Witness ==
    /\ ~forwards
    /\ \E n \in 1..Len(Emitted) :
          LET r == Emitted[n]
          IN /\ "second_line_num" \in DOMAIN r
             /\ r["second_line_num"] + 2 <= r["first_line_num"]
             /\ r["second_line"] # r["first_line"]

\* C5 (as claimed): with the context option disabled no visited line is added
\* to context: an emitted record has no context beyond the trigger line.
C5_ContextOnlyWhenEnabled ==
    (context = FALSE) =>
        \A n \in 1..Len(Emitted) :
            \/ "context" \notin DOMAIN Emitted[n]
            \/ Emitted[n]["context"] = Emitted[n]["first_line"]

\* C6 (as claimed): when search has returned, also because results reached
\* max_results, it returned the list of the records appended so far, and main
\* takes its length without error.
C6_ReturnsList ==
    (pc \in {"returned", "done"}) =>
        /\ ret.kind = "list"
        /\ ret.val = matches
        /\ main_result # "TypeError"

(***************************************************************************)
(* The pattern library's claims                                            *)
(***************************************************************************)
\* The flags a call of from_string was given: those its tokens name and its
\* base flag.
GivenFlags ==
    { FlagNames[t] : t \in Range(args.tokens) \cap DOMAIN FlagNames }
    \cup (IF args.flag = 0 THEN {} ELSE {args.flag})

\* The engine flag each flag of the library stands for (WHOLE has none).
EngineFlag ==
    (ICASE :> "IGNORECASE") @@ (MULTI :> "MULTILINE") @@ (DOTALL :> "DOTALL")
    @@ (UNICODE :> "UNICODE") @@ (VERBOSE :> "VERBOSE")

IsWholeWrapped(p) == p # <<>> /\ p[1] = "^" /\ p[Len(p)] = "$"

FromRegexSpec == args.ctor = "from_string" /\ args.form = "regex"

\* C7 (as claimed): after from_string on /body/tokens, has_flag(X) answers TRUE
\* exactly for the flags X that were given, the engine flags are exactly those
\* of the given flags, and the pattern is wrapped in ^...$ exactly when the
\* whole flag was given.
C7_FlagsIndependent ==
    (FromRegexSpec /\ IsObject(built)) =>
        /\ (call.op = "has_flag") => (result.val <=> call.flag \in GivenFlags)
        /\ built.val._pattern.flags =
              { EngineFlag[X] : X \in GivenFlags \cap DOMAIN EngineFlag }
        /\ IsWholeWrapped(built.val.pattern) <=> WHOLE \in GivenFlags

\* What Fixed(P).matches(S) is to answer under the given flags.
ExpectedFixedMatch(P, flags, S) ==
    LET icase == BitAnd(flags, ICASE) = ICASE
        whole == BitAnd(flags, WHOLE) = WHOLE
        p == IF icase THEN lower(P) ELSE P
        t == IF icase THEN lower(S) ELSE S
    IN IF whole THEN p = t ELSE StrIn(p, t)

\* C8 (as claimed): matches on a fixed pattern returns (bool, None), the bool
\* being P in S, or P = S in whole-match mode, on case-folded P and S when the
\* case-insensitive flag is set; the call never fails.
C8_FixedMatches ==
    (IsObject(built) /\ call.op = "matches") =>
        (built.val.cls = "FixedPattern" =>
            result = Returned(<<ExpectedFixedMatch(built.val.pattern,
                                                   built.val.flags, call.string),
                                None>>))

\* The total distance() is to return for the words found of a line, from the
\* word at position i on.
RECURSIVE ExpectedDistance(_, _, _)
ExpectedDistance(self, found, i) ==
    IF i >= Len(found) THEN 0
    ELSE LET icase == has_flag(self, ICASE)
             w == IF icase THEN lower(found[i + 1]) ELSE found[i + 1]
         IN (IF i \in DOMAIN self.words
             THEN levenshtein(IF icase THEN lower(self.words[i]) ELSE self.words[i], w)
             ELSE Len(w))
            + ExpectedDistance(self, found, i + 1)

\* C9 (as claimed): distance(line) returns, for every line, the sum over the
\* line's words of the edit distance to the word-table entry at the word's
\* position, or of the word's length where the table has no entry.
C9_DistanceDefined ==
    (IsObject(built) /\ call.op = "distance") =>
        result = Returned(ExpectedDistance(built.val,
                                           p_word_regex_findall(call.string, 1), 0))

ApproxTokens == { n \in 1..Len(args.tokens) : args.tokens[n][1] = "a" }

\* The threshold an approximate token asks for: N for a:N, else the default.
ExpectedThreshold(token) ==
    IF /\ Len(token) > 2
       /\ token[2] = ":"
       /\ \A n \in 3..Len(token) : token[n] \in Range(DigitSeq)
    THEN DecimalValue(SubSeq(token, 3, Len(token)))
    ELSE DEFAULT_DISTANCE

\* C10 (as claimed): from_string given an approximate token returns a
\* FuzzyRegExPattern whose threshold is N for a:N and the default 3 for a
\* token without parameter or with a parameter that is no integer.
C10_ApproxThreshold ==
    (FromRegexSpec /\ pat_pc = "built" /\ ApproxTokens # {}) =>
        /\ IsObject(built)
        /\ built.val.cls = "FuzzyRegExPattern"
        /\ built.val.max_dist =
              ExpectedThreshold(args.tokens[CHOOSE n \in ApproxTokens :
                                               \A k \in ApproxTokens : n <= k])

\* The pattern with each word that p_regex_regex finds replaced, where it was
\* found, by the word token, and every other character kept (from position p).
RECURSIVE RewrittenInPlace(_, _)
RewrittenInPlace(s, p) ==
    IF p > Len(s) THEN <<>>
    ELSE LET n == RunLength(s, p, AlnumChars)
             recorded == /\ n >= 2
                         /\ p = 1 \/ s[p - 1] \notin WordChars
                         /\ p + n > Len(s) \/ s[p + n] \notin WordChars
                         /\ ~(p > 1 /\ s[p - 1] = "\\")
                         /\ ~(p > 2 /\ s[p - 2] = "P" /\ s[p - 1] = "<")
         IN IF recorded
            THEN <<"\\", "w", "+">> \o RewrittenInPlace(s, p + n)
            ELSE <<s[p]>> \o RewrittenInPlace(s, p + 1)

\* C11 (as claimed): a FuzzyRegExPattern's pattern is the given body with each
\* recorded word replaced by the word token at the word's own place and every
\* other character unchanged (then wrapped in ^...$ when the instance has the
\* whole flag), and its word table holds the recorded words at 0, 1, 2, ... in
\* left-to-right order.
C11_RewriteOwnOccurrence ==
    (FromRegexSpec /\ IsObject(built)) =>
        (built.val.cls = "FuzzyRegExPattern" =>
            LET found == p_regex_regex_findall(args.body, 1)
                expected == RewrittenInPlace(args.body, 1)
            IN /\ built.val.pattern =
                    (IF has_flag(built.val, WHOLE)
                     THEN <<"^">> \o expected \o <<"$">> ELSE expected)
               /\ DOMAIN built.val.words = 0..(Len(found) - 1)
               /\ \A i \in DOMAIN built.val.words : built.val.words[i] = found[i + 1])

(***************************************************************************)
(* The scanner's claim about the in-progress record                        *)
(***************************************************************************)
\* The captures of pattern p's own match on text s.
OwnCaptures(p, s) == IF IsRegex(p) THEN re_match(p, s).groupdict ELSE <<>>

\* The fixed fields of the record for line i, the counter carried over from g.
FixedFields(buf, g, i) ==
    [file |-> InputPath, first_line |-> buf[i + 1], first_line_num |-> i,
     results |-> g["results"]]

\* C12: in every pass of the outer loop that tests a line i, the in-progress
\* record is rebuilt: when the trigger rejects the line it holds the fixed
\* fields of line i and nothing else, its results being the counter carried
\* over; and a record emitted in the pass holds exactly the fixed fields of
\* line i with the carried-over counter, the captures of its own trigger match
\* and, when an anchor pattern was given, second_line, second_line_num and
\* context of its own anchor search and the captures of its own anchor match
\* -- no key or value left from an earlier line.
C12_RecordRebuilt ==
    [][ \A i \in 0..(Len(lines) - 1) :
          TestsLine(i) =>
            LET base == Update(FixedFields(lines', groups, i),
                               OwnCaptures(first_pattern, lines'[i + 1]))
            IN /\ ~Satisfies(first_pattern, lines'[i + 1]) =>
                    /\ groups' = FixedFields(lines', groups, i)
                    /\ Emitted' = Emitted
               /\ Len(Emitted') <= Len(Emitted) + 1
               /\ Len(Emitted') > Len(Emitted) =>
                    LET r == Emitted'[Len(Emitted')]
                    IN IF second_pattern = None
                       THEN r = base
                       ELSE LET j == r["second_line_num"]
                            IN r = Update(
                                     Update(base,
                                            [second_line |-> lines'[j + 1],
                                             second_line_num |-> j,
                                             context |-> JoinLines(lines', Min(i, j),
                                                                   Max(i, j))]),
                                     OwnCaptures(second_pattern, lines'[j + 1]))
      ]_vars

\* C12's case: in one backward scan with capturing trigger and anchor, a
\* trigger hit found no anchor (its search left second_line behind), a later
\* hit was emitted, and after that a line the trigger rejects was tested.
C12_Witness ==
    /\ pc = "loop"
    /\ ~forwards
    /\ IsRegex(first_pattern) /\ first_pattern.group # ""
    /\ IsRegex(second_pattern) /\ second_pattern.group # ""
    /\ line >= 1
    /\ ~Satisfies(first_pattern, lines[line])
    /\ DOMAIN groups = {"file", "first_line", "first_line_num", "results"}
    /\ \E n \in 1..Len(Emitted) :
          \E i \in 0..(Emitted[n]["first_line_num"] - 1) :
              /\ Satisfies(first_pattern, lines[i + 1])
              /\ \A k \in 1..Len(Emitted) : Emitted[k]["first_line_num"] # i

====
